---------------------------- MODULE Spec2Model ----------------------------
(***************************************************************************)
(* Model of the Log class of src/index.js: an in-memory set of sections    *)
(* with typed entries, re-rendered to an HTML document and written to a    *)
(* date-partitioned file on every mutation.                                *)
(*                                                                         *)
(* The template substitution of _dateToString and the path concatenation   *)
(* of _prepareSave are computed on strings as the code computes them.      *)
(* A Date is the number of milliseconds since BaseYear-BaseMonth-BaseDay   *)
(* 00:00:00.000 local time.                                                *)
(***************************************************************************)
EXTENDS Integers, Sequences, FiniteSets, TLC

(***************************************************************************)
(* Bounds of the model.                                                    *)
(***************************************************************************)
MaxInstants == 2
MaxFaults == 1
MaxCalls == 3

(***************************************************************************)
(* Strings.                                                                *)
(***************************************************************************)
Digit == <<"0", "1", "2", "3", "4", "5", "6", "7", "8", "9">>

RECURSIVE NumToStr(_)
\* Number -> String conversion of a non-negative integer (decimal, no padding).
NumToStr(n) ==
    IF n < 10 THEN Digit[n + 1]
    ELSE NumToStr(n \div 10) \o Digit[(n % 10) + 1]

\* Does pat occur in s at position i ?
MatchAt(s, pat, i) ==
    /\ i + Len(pat) - 1 <= Len(s)
    /\ SubSeq(s, i, i + Len(pat) - 1) = pat

\* String.prototype.indexOf: position of the first occurrence, 0 when absent.
IndexOf(s, pat) ==
    IF \E i \in 1..Len(s) : MatchAt(s, pat, i)
    THEN CHOOSE i \in 1..Len(s) :
            /\ MatchAt(s, pat, i)
            /\ \A j \in 1..(i - 1) : ~MatchAt(s, pat, j)
    ELSE 0

ReplaceAt(s, i, pat, val) ==
    IF i = 0 THEN s
    ELSE SubSeq(s, 1, i - 1) \o val \o SubSeq(s, i + Len(pat), Len(s))

\* String.prototype.replace with a string pattern: only the first occurrence
\* is replaced.
replace(s, pat, val) == ReplaceAt(s, IndexOf(s, pat), pat, val)

(***************************************************************************)
(* Dates.                                                                  *)
(***************************************************************************)
BaseYear == 2024
BaseMonth == 9
BaseDay == 28
MsPerSecond == 1000
MsPerDay == 86400000

IsLeap(y) == (y % 4 = 0 /\ y % 100 # 0) \/ y % 400 = 0

DaysInMonth(y, m) ==
    IF m = 2 THEN (IF IsLeap(y) THEN 29 ELSE 28)
    ELSE IF m \in {4, 6, 9, 11} THEN 30 ELSE 31

RECURSIVE Civil(_, _, _, _)
\* The calendar date n days after year y, month m, day d.
Civil(y, m, d, n) ==
    IF n = 0 THEN [year |-> y, month |-> m, day |-> d]
    ELSE IF d < DaysInMonth(y, m) THEN Civil(y, m, d + 1, n - 1)
    ELSE IF m < 12 THEN Civil(y, m + 1, 1, n - 1)
    ELSE Civil(y + 1, 1, 1, n - 1)

CivilOf(t) == Civil(BaseYear, BaseMonth, BaseDay, t \div MsPerDay)

getTime(t) == t
getDate(t) == CivilOf(t).day
getMonth(t) == CivilOf(t).month - 1
getFullYear(t) == CivilOf(t).year
getHours(t) == (t % MsPerDay) \div (3600 * MsPerSecond)
getMinutes(t) == ((t % MsPerDay) \div (60 * MsPerSecond)) % 60
getSeconds(t) == ((t % MsPerDay) \div MsPerSecond) % 60

\* The dates of the model: 28/09/2024 1:11:1, 01/10/2024 9:7:3.250,
\* 28/09/2024 11:1:1, 01/10/2024 9:7:3.255, 13/10/2024 23:59:59.  The clock
\* is read at the first MaxInstants of them.
Instants == <<4261000, 292023250, 39661000, 292023255, 1382399000>>
Dates == {Instants[i] : i \in 1..Len(Instants)}
Clock == {Instants[i] : i \in 1..MaxInstants}

\* (n < 10) ? "0" + n : n
ZeroPadded(n) == IF n < 10 THEN "0" \o NumToStr(n) ELSE NumToStr(n)

\* _dateToString(dateTime, template): day and month are zero-padded, the
\* other fields are not; each token is replaced at its first occurrence, in
\* the order dd, mm, yyyy, H, i, s.
formatDate(dateTime, template) ==
    replace(
      replace(
        replace(
          replace(
            replace(
              replace(template, "dd", ZeroPadded(getDate(dateTime))),
              "mm", ZeroPadded(getMonth(dateTime) + 1)),
            "yyyy", NumToStr(getFullYear(dateTime))),
          "H", NumToStr(getHours(dateTime))),
        "i", NumToStr(getMinutes(dateTime))),
      "s", NumToStr(getSeconds(dateTime)))

\* The templates the code passes to _dateToString.
TplDay == "dd"
TplMonth == "mm"
TplYear == "yyyy"
TplFileStamp == "yyyymmdd_His"
TplDateTime == "dd/mm/yyyy H:i:s"
Templates == {TplDay, TplMonth, TplYear, TplFileStamp, TplDateTime}

\* _dateToString on the dates and templates of the model, computed once.
DateStrings == [t \in Dates |-> [tpl \in Templates |-> formatDate(t, tpl)]]
dateToString(dateTime, template) == DateStrings[dateTime][template]

(***************************************************************************)
(* Section keys and the enumeration order of this.sections.                *)
(***************************************************************************)
EXCEPTIONS == "EXCEPTIONS"
ExceptionsName == "Unhandled exceptions"

RECURSIVE StrToNum(_)
StrToNum(k) ==
    IF Len(k) = 0 THEN 0
    ELSE 10 * StrToNum(SubSeq(k, 1, Len(k) - 1))
         + (CHOOSE d \in 0..9 : Digit[d + 1] = SubSeq(k, Len(k), Len(k)))

\* A property key that is an integer index: a canonical decimal numeral (no
\* leading zero).  The keys of the model are short, so the upper limit of an
\* index is never reached.
IsArrayIndex(k) ==
    /\ Len(k) \in 1..9
    /\ \A i \in 1..Len(k) : \E d \in 1..10 : Digit[d] = SubSeq(k, i, i)
    /\ (Len(k) > 1 => SubSeq(k, 1, 1) # "0")

HasKey(secs, k) == \E i \in 1..Len(secs) : secs[i].key = k
PosOf(secs, k) == CHOOSE i \in 1..Len(secs) : secs[i].key = k
\* this.sections[k]
Get(secs, k) == secs[PosOf(secs, k)]

LowestIndex(S) ==
    CHOOSE s \in S : \A o \in S : StrToNum(s.key) <= StrToNum(o.key)

RECURSIVE SortByIndex(_)
\* The sections of the set S in ascending order of their numeric key.
SortByIndex(S) ==
    IF S = {} THEN <<>>
    ELSE <<LowestIndex(S)>> \o SortByIndex(S \ {LowestIndex(S)})

IsIndexSection(s) == IsArrayIndex(s.key)
IsNamedSection(s) == ~IsArrayIndex(s.key)

\* for (var i in this.sections): the own properties of an object are
\* enumerated integer indices first, in ascending numeric order, then the
\* other string keys in the order in which the properties were created.
\* secs holds the properties in creation order.
ForIn(secs) ==
    SortByIndex({secs[i] : i \in {j \in 1..Len(secs) : IsIndexSection(secs[j])}})
    \o SelectSeq(secs, IsNamedSection)

(***************************************************************************)
(* _render: the interpolated parts of the template, in document order.     *)
(***************************************************************************)
RenderLog(log) ==
    [class |-> log.type,
     text  |-> log.type \o " (" \o log.dateTime \o "): " \o log.value]

\* RenderLogs with the lines in reverse order; EntriesSinceCreationRendered
\* tells the two apart.
RenderLogsReversed(logs) ==
    [i \in 1..Len(logs) |-> RenderLog(logs[Len(logs) + 1 - i])]

RenderLogs(logs) == [j \in 1..Len(logs) |-> RenderLog(logs[j])]

RenderTocItem(section) == [href |-> "#" \o section.key, text |-> section.name]

RenderSection(section) ==
    [id       |-> section.key,
     h2       |-> section.name,
     started  |-> dateToString(section.start, TplDateTime),
     finished |-> dateToString(section.end, TplDateTime),
     logs     |-> RenderLogs(section.logs)]

RenderDocument(this, startString, list) ==
    [headTitle   |-> this.title \o " - " \o startString,
     h1          |-> this.title \o " log",
     description |-> this.description,
     started     |-> startString,
     finished    |-> dateToString(this.end, TplDateTime),
     toc         |-> [i \in 1..Len(list) |-> RenderTocItem(list[i])],
     body        |-> [i \in 1..Len(list) |-> RenderSection(list[i])]]

render(this) ==
    RenderDocument(this, dateToString(this.start, TplDateTime), ForIn(this.sections))

(***************************************************************************)
(* save and _prepareSave.                                                  *)
(*                                                                         *)
(* `this` is a record of the Logger's fields together with the file system *)
(* (dirs, files), the file-system calls made so far by the running public  *)
(* method (calls) and the error it has thrown, if any (threw).  fail names *)
(* the file-system call of this save that fails: 0 none, 1..3 the mkdirSync*)
(* of that directory level, 4 the writeFileSync.                           *)
(***************************************************************************)
\* this.end = null
Null == -1

YearDir(base, year) == base \o "/" \o year
MonthDir(base, year, month) == YearDir(base, year) \o "/" \o month
DayDir(base, year, month, day) == MonthDir(base, year, month) \o "/" \o day

\* The directory of level i = 1, 2, 3 for a Logger started at `from`.
DirLevel(base, from, i) ==
    IF i = 1 THEN YearDir(base, dateToString(from, TplYear))
    ELSE IF i = 2
    THEN MonthDir(base, dateToString(from, TplYear), dateToString(from, TplMonth))
    ELSE DayDir(base, dateToString(from, TplYear), dateToString(from, TplMonth),
                dateToString(from, TplDay))

FileName(ttl, from) == ttl \o "_" \o dateToString(from, TplFileStamp)

\* fullFilePath of a Logger with this title and logsPath started at `from`.
FullFilePath(ttl, base, from) ==
    DirLevel(base, from, 3) \o "/" \o FileName(ttl, from) \o ".html"

\* A call of the file system, with whether it returned normally.
FsCall(fn, path, ok) == [fn |-> fn, path |-> path, ok |-> ok]

Called(this, fn, path, ok) == [this EXCEPT !.calls = Append(@, FsCall(fn, path, ok))]

MkdirSync(this, dir, failing) ==
    IF failing
    THEN [Called(this, "mkdirSync", dir, FALSE) EXCEPT !.threw = "IOError"]
    ELSE [Called(this, "mkdirSync", dir, TRUE) EXCEPT !.dirs = @ \cup {dir}]

\* if (!existsSync(dir)) mkdirSync(dir);
EnsureDir(this, dir, failing) ==
    IF this.threw # "none" THEN this
    ELSE IF dir \in this.dirs THEN Called(this, "existsSync", dir, TRUE)
    ELSE MkdirSync(Called(this, "existsSync", dir, TRUE), dir, failing)

\* PathSource reading the time of the save instead of the start;
\* EverySaveTargetsOnePath tells the two apart.
PathSourceEnd(this) == IF this.end = Null THEN this.start ELSE this.end

\* The path of the file is derived from this.start.
PathSource(this) == this.start

prepareSave(this, tEnd, fail) ==
    EnsureDir(
      EnsureDir(
        EnsureDir([this EXCEPT !.end = tEnd],
                  DirLevel(this.logsPath, PathSource(this), 1), fail = 1),
        DirLevel(this.logsPath, PathSource(this), 2), fail = 2),
      DirLevel(this.logsPath, PathSource(this), 3), fail = 3)

\* writeFileSync(path, content); targets is a history variable, the set of
\* the paths writeFileSync has been called with.
WriteFile(this, path, content, fail) ==
    IF fail = 4
    THEN [Called(this, "writeFileSync", path, FALSE) EXCEPT
            !.targets = @ \cup {path},
            !.threw = "IOError"]
    ELSE [Called(this, "writeFileSync", path, TRUE) EXCEPT
            !.targets = @ \cup {path},
            !.files = [p \in DOMAIN @ \cup {path} |->
                         IF p = path THEN content ELSE @[p]]]

\* var fileContent = this._render(); writeFileSync(fullFilePath, fileContent)
RenderAndWrite(prepared, fail) ==
    IF prepared.threw # "none" THEN prepared
    ELSE WriteFile(prepared,
                   FullFilePath(prepared.title, prepared.logsPath, PathSource(prepared)),
                   render(prepared), fail)

save(this, tEnd, fail) == RenderAndWrite(prepareSave(this, tEnd, fail), fail)

(***************************************************************************)
(* Section management and entry recording.                                 *)
(***************************************************************************)
\* elapsed is the empty tuple for '' and the tuple <<n>> for the number n.
NewSection(name, key, tStart, tEnd) ==
    [key |-> key, name |-> name, start |-> tStart, end |-> tEnd,
     elapsed |-> <<>>, logs |-> <<>>]

\* this.sections[key] = section
PutSection(secs, key, section) ==
    IF HasKey(secs, key)
    THEN [secs EXCEPT ![PosOf(secs, key)] = section]
    ELSE Append(secs, section)

\* journal and resetAt are history variables: journal[key] lists every entry
\* ever pushed to key with whether the _pushLog that pushed it returned
\* normally, resetAt[key] is the length of journal[key] when key was last
\* passed to createSection.
createSection(this, name, key, tStart, tEnd, tSave, fail) ==
    save([this EXCEPT
            !.sections = PutSection(@, key, NewSection(name, key, tStart, tEnd)),
            !.resetAt = [@ EXCEPT ![key] = Len(this.journal[key])]],
         tSave, fail)

\* Closed with the subtraction the other way round; ElapsedIsEndMinusStart
\* tells the two apart.
ClosedSwapped(section, tEnd) ==
    [section EXCEPT !.end = tEnd,
                    !.elapsed = <<getTime(section.start) - getTime(tEnd)>>]

\* section.end = new Date(); section.elapsed = end.getTime() - start.getTime()
Closed(section, tEnd) ==
    [section EXCEPT !.end = tEnd,
                    !.elapsed = <<getTime(tEnd) - getTime(section.start)>>]

\* closeSection saving before it closes the section; FileIsRenderingOfState
\* tells the two apart.
closeSectionSaveFirst(this, key, tEnd, tSave, fail) ==
    IF ~HasKey(this.sections, key) THEN [this EXCEPT !.threw = "TypeError"]
    ELSE [save(this, tSave, fail) EXCEPT
            !.sections[PosOf(this.sections, key)] = Closed(@, tEnd)]

closeSection(this, key, tEnd, tSave, fail) ==
    IF ~HasKey(this.sections, key) THEN [this EXCEPT !.threw = "TypeError"]
    ELSE save([this EXCEPT
                 !.sections[PosOf(this.sections, key)] = Closed(@, tEnd)],
              tSave, fail)

getLogObject(type, value, tNow) ==
    [type |-> type, value |-> value, dateTime |-> dateToString(tNow, TplDateTime)]

Journalled(saved, sectionKey, log) ==
    [saved EXCEPT
       !.journal[sectionKey] = Append(@, [log |-> log, ok |-> saved.threw = "none"])]

\* PushAndSave creating the section when it is missing;
\* UnknownKeyChangesNothing tells the two apart.
WithSection(secs, key, tNow) ==
    IF HasKey(secs, key) THEN secs ELSE Append(secs, NewSection(key, key, tNow, tNow))

WithLog(secs, key, log) == [secs EXCEPT ![PosOf(secs, key)].logs = Append(@, log)]

PushAndSaveAutoCreate(this, sectionKey, log, tSave, fail) ==
    Journalled(
       save([this EXCEPT
               !.sections = WithLog(WithSection(@, sectionKey, tSave), sectionKey, log)],
            tSave, fail),
       sectionKey, log)

\* PushAndSave taking the entry back when the save fails;
\* FailedSaveKeepsChange tells the two apart.
RolledBack(this, saved) ==
    IF saved.threw = "none" THEN saved ELSE [saved EXCEPT !.sections = this.sections]

PushAndSaveRollback(this, sectionKey, log, tSave, fail) ==
    IF ~HasKey(this.sections, sectionKey) THEN [this EXCEPT !.threw = "TypeError"]
    ELSE RolledBack(this,
            Journalled(
               save([this EXCEPT
                       !.sections[PosOf(this.sections, sectionKey)].logs = Append(@, log)],
                    tSave, fail),
               sectionKey, log))

PushAndSave(this, sectionKey, log, tSave, fail) ==
    IF ~HasKey(this.sections, sectionKey) THEN [this EXCEPT !.threw = "TypeError"]
    ELSE Journalled(
            save([this EXCEPT
                    !.sections[PosOf(this.sections, sectionKey)].logs = Append(@, log)],
                 tSave, fail),
            sectionKey, log)

pushLog(this, type, sectionKey, value, tNow, tSave, fail) ==
    PushAndSave(this, sectionKey, getLogObject(type, value, tNow), tSave, fail)

\* CreateIfAbsent creating the section at every call; ExceptionsSectionReused
\* tells the two apart.
CreateAlways(this, t, fail) ==
    createSection(this, ExceptionsName, EXCEPTIONS, t[1], t[2], t[3], fail)

\* if (this.sections["EXCEPTIONS"] === undefined) this.createSection(...)
CreateIfAbsent(this, t, fail) ==
    IF ~HasKey(this.sections, EXCEPTIONS)
    THEN createSection(this, ExceptionsName, EXCEPTIONS, t[1], t[2], t[3], fail)
    ELSE this

\* PushException going on after a failed save; StorageFailureReachesCaller
\* tells the two apart.
PushExceptionRegardless(created, type, message, t, fail) ==
    pushLog([created EXCEPT !.threw = "none"], type, EXCEPTIONS, message,
            t[4], t[5], fail)

\* The statements of _logException after the first: each runs only if the
\* ones before it did not throw.
PushException(created, type, message, t, fail) ==
    IF created.threw # "none" THEN created
    ELSE pushLog(created, type, EXCEPTIONS, message, t[4], t[5], fail)

CloseException(pushed, t, fail) ==
    IF pushed.threw # "none" THEN pushed
    ELSE closeSection(pushed, EXCEPTIONS, t[6], t[7], fail)

\* t is the sequence of the clock readings of the call, f the failures of
\* its saves.
logException(this, type, message, t, f) ==
    CloseException(
      PushException(CreateIfAbsent(this, t, f[1]), type, message, t, f[2]),
      t, f[3])

(***************************************************************************)
(* The state machine.                                                      *)
(***************************************************************************)
VARIABLES
    title, description, logsPath, start, end, sections,  \* the Logger's fields
    dirs, files,        \* the file system: existing directories, file contents
    now,                \* the latest reading of the clock
    lastCall,           \* the last public call: method, key and how it ended
    calls,              \* the file-system calls made by the last public call
    journal, resetAt,   \* history of the pushed entries (see pushLog)
    targets,            \* history of the paths written to (see WriteFile)
    faults,             \* the number of file-system calls that have failed
    ncalls              \* the number of public calls made

vars == <<title, description, logsPath, start, end, sections, dirs, files, now,
          lastCall, calls, journal, resetAt, targets, faults, ncalls>>

Titles == {"Job"}
Descriptions == {"desc"}
LogsPaths == {"/logs"}
SectionNames == {"Phase"}
Values == {"msg"}
INFO == "INFO"
ERROR == "ERROR"
DEBUG == "DEBUG"

\* Keys callers pass to createSection: a name and an integer index.
UserKeys == {"a", "1"}
AllKeys == UserKeys \cup {EXCEPTIONS}

\* fail: no failure, the mkdirSync of level 1..3, the writeFileSync.
Failures == 0..4

\* The failures of a call that saves n times: the call ends at the first
\* failure, so at most one of its saves fails.
FailurePlans(n) ==
    {[i \in 1..n |-> IF i = j THEN x ELSE 0] : j \in 1..n, x \in Failures}

\* The Logger and its environment as the record the operators work on.
This ==
    [title |-> title, description |-> description, logsPath |-> logsPath,
     start |-> start, end |-> end, sections |-> sections,
     dirs |-> dirs, files |-> files, calls |-> <<>>, threw |-> "none",
     journal |-> journal, resetAt |-> resetAt, targets |-> targets]

\* The state after a public call that left the Logger as `that`.
Return(that, op, key) ==
    /\ ncalls < MaxCalls
    /\ end' = that.end
    /\ sections' = that.sections
    /\ dirs' = that.dirs
    /\ files' = that.files
    /\ calls' = that.calls
    /\ journal' = that.journal
    /\ resetAt' = that.resetAt
    /\ targets' = that.targets
    /\ lastCall' = [op |-> op, key |-> key, result |-> that.threw]
    /\ faults' = faults + Cardinality({i \in 1..Len(that.calls) : ~that.calls[i].ok})
    /\ ncalls' = ncalls + 1
    /\ UNCHANGED <<title, description, logsPath, start, now>>

\* constructor(title, description, logsPath)
Init ==
    /\ title \in Titles
    /\ description \in Descriptions
    /\ logsPath \in LogsPaths
    /\ start = Instants[1]
    /\ end = Null
    /\ sections = <<>>
    /\ dirs = {}
    /\ files = <<>>
    /\ now = start
    /\ lastCall = [op |-> "constructor", key |-> "", result |-> "none"]
    /\ calls = <<>>
    /\ journal = [k \in AllKeys |-> <<>>]
    /\ resetAt = [k \in AllKeys |-> 0]
    /\ targets = {}
    /\ faults = 0
    /\ ncalls = 0

\* A public method runs to completion within one reading of the clock: every
\* new Date() of the call returns `now`.  Time passes between the calls.
Tick ==
    /\ \E t \in Clock : t > now /\ now' = t
    /\ UNCHANGED <<title, description, logsPath, start, end, sections, dirs,
                   files, lastCall, calls, journal, resetAt, targets, faults,
                   ncalls>>

\* The failure fail can happen in a save made now: a mkdirSync can only fail
\* when it is called, that is when its directory does not exist.
CanFail(fail) ==
    fail # 0 =>
        /\ faults < MaxFaults
        /\ fail \in 1..3 => DirLevel(logsPath, start, fail) \notin dirs

\* The same for the saves of _logException: the createSection is skipped when
\* the section exists, and once a save has succeeded every directory exists.
CanFailPlan(f) ==
    LET exists == HasKey(sections, EXCEPTIONS)
    IN  /\ f[1] # 0 => ~exists /\ CanFail(f[1])
        /\ f[2] # 0 => IF exists THEN CanFail(f[2]) ELSE f[2] = 4 /\ CanFail(f[2])
        /\ f[3] # 0 => f[3] = 4 /\ CanFail(f[3])

CreateSection ==
    \E name \in SectionNames, key \in UserKeys, fail \in Failures :
        /\ CanFail(fail)
        /\ Return(createSection(This, name, key, now, now, now, fail),
                  "createSection", key)

CloseSection ==
    \E key \in AllKeys, fail \in Failures :
        /\ CanFail(fail)
        /\ ~HasKey(sections, key) => fail = 0
        /\ Return(closeSection(This, key, now, now, fail), "closeSection", key)

Info ==
    \E key \in AllKeys, value \in Values, fail \in Failures :
        /\ CanFail(fail)
        /\ ~HasKey(sections, key) => fail = 0
        /\ Return(pushLog(This, INFO, key, value, now, now, fail), "info", key)

Error ==
    \E key \in AllKeys, value \in Values, fail \in Failures :
        /\ CanFail(fail)
        /\ ~HasKey(sections, key) => fail = 0
        /\ Return(pushLog(This, ERROR, key, value, now, now, fail), "error", key)

Debug ==
    \E key \in AllKeys, value \in Values, fail \in Failures :
        /\ CanFail(fail)
        /\ ~HasKey(sections, key) => fail = 0
        /\ Return(pushLog(This, DEBUG, key, value, now, now, fail), "debug", key)

ErrorException ==
    \E message \in Values, f \in FailurePlans(3) :
        /\ CanFailPlan(f)
        /\ Return(logException(This, ERROR, message, [i \in 1..7 |-> now], f),
                  "errorException", EXCEPTIONS)

DebugException ==
    \E message \in Values, f \in FailurePlans(3) :
        /\ CanFailPlan(f)
        /\ Return(logException(This, DEBUG, message, [i \in 1..7 |-> now], f),
                  "debugException", EXCEPTIONS)

Save ==
    \E fail \in Failures :
        /\ CanFail(fail)
        /\ Return(save(This, now, fail), "save", "")

Next ==
    \/ Tick
    \/ CreateSection
    \/ CloseSection
    \/ Info
    \/ Error
    \/ Debug
    \/ ErrorException
    \/ DebugException
    \/ Save

Spec == Init /\ [][Next]_vars

(***************************************************************************)
(* Vocabulary of the properties.                                           *)
(***************************************************************************)
\* The path of the log file of this Logger.
Path == FullFilePath(title, logsPath, start)

PushOps == {"info", "error", "debug"}
ExceptionOps == {"errorException", "debugException"}
MutatingOps == {"createSection", "closeSection"} \cup PushOps \cup ExceptionOps

\* The type of the entries an entry method records.
TypeOf(op) ==
    IF op \in {"error", "errorException"} THEN ERROR
    ELSE IF op \in {"debug", "debugException"} THEN DEBUG
    ELSE INFO

\* The step is a public call (and not the passing of time).
IsCall == ncalls' = ncalls + 1

\* The entry lines of the block of section k in a document, in document
\* order (blocks with the same id are concatenated; no block, no lines).
RECURSIVE LinesFrom(_, _, _)
LinesFrom(body, k, i) ==
    IF i > Len(body) THEN <<>>
    ELSE (IF body[i].id = k THEN body[i].logs ELSE <<>>) \o LinesFrom(body, k, i + 1)

BlockLines(doc, k) == LinesFrom(doc.body, k, 1)

\* The line of an entry: its type as style class and "TYPE (dateTime): value".
LineOf(log) ==
    [class |-> log.type,
     text  |-> log.type \o " (" \o log.dateTime \o "): " \o log.value]

LinesOf(entries) == [i \in 1..Len(entries) |-> LineOf(entries[i].log)]

IsOk(entry) == entry.ok

\* The last call saved and returned normally: the file is the document of
\* the last save.
SavedLast ==
    /\ lastCall.op \in MutatingOps \cup {"save"}
    /\ lastCall.result = "none"
    /\ Path \in DOMAIN files

(***************************************************************************)
(* C1.  After every call of createSection, closeSection, info, error,      *)
(* debug, errorException or debugException that returns normally, the log  *)
(* file holds the rendering of the Logger's state as it is when the call   *)
(* returns.                                                                *)
(***************************************************************************)
FileIsRenderingOfState ==
    (lastCall.op \in MutatingOps /\ lastCall.result = "none") =>
        /\ Path \in DOMAIN files
        /\ files[Path] = render(This)

\* errorException has returned normally: the file shows the EXCEPTIONS block
\* with its entry.
FileIsRenderingOfStateWitness ==
    /\ lastCall.op = "errorException"
    /\ lastCall.result = "none"
    /\ Path \in DOMAIN files
    /\ Len(BlockLines(files[Path], EXCEPTIONS)) = 1

(***************************************************************************)
(* C2.  info, error, debug and closeSection with a key that was never      *)
(* created throw before any save: no call of the file system is made, the  *)
(* file is not rewritten, and sections and Logger.end are what they were.  *)
(***************************************************************************)
UnknownKeyChangesNothing ==
    [][(/\ IsCall
        /\ lastCall'.op \in PushOps \cup {"closeSection"}
        /\ ~HasKey(sections, lastCall'.key))
       => /\ lastCall'.result = "TypeError"
          /\ calls' = <<>>
          /\ UNCHANGED <<sections, end, files, dirs>>]_vars

\* closeSection on an unknown key has thrown while another section and the
\* file exist.
UnknownKeyChangesNothingWitness ==
    /\ lastCall.op = "closeSection"
    /\ lastCall.result = "TypeError"
    /\ ~HasKey(sections, lastCall.key)
    /\ Len(sections) > 0
    /\ Path \in DOMAIN files

(***************************************************************************)
(* C3 as stated.  Whatever keys are passed to createSection and however    *)
(* often, the document of the last save has, in the block of each section, *)
(* exactly the lines of the entries recorded to it by the info, error and  *)
(* debug calls that returned normally, in the order recorded.  (Checked on *)
(* the runs of createSection, closeSection, info, error, debug and save in *)
(* which the storage never failed.)                                        *)
(***************************************************************************)
EveryRecordedEntryRendered ==
    (SavedLast /\ faults = 0 /\ ~HasKey(sections, EXCEPTIONS)) =>
        \A k \in UserKeys :
            BlockLines(files[Path], k) = LinesOf(SelectSeq(journal[k], IsOk))

(***************************************************************************)
(* C3 as amended.  The document of the last save has, in the block of each *)
(* section, exactly the lines of the entries pushed to that key since the  *)
(* key was last passed to createSection, in the order recorded, whether or *)
(* not the save of the recording call succeeded; the entries recorded      *)
(* before that createSection are gone.                                     *)
(***************************************************************************)
EntriesSinceCreationRendered ==
    SavedLast =>
        \A k \in AllKeys :
            BlockLines(files[Path], k) =
                LinesOf(SubSeq(journal[k], resetAt[k] + 1, Len(journal[k])))

\* A section that had an entry was created again: the document of the last
\* save has its block, without the entry.
EntriesSinceCreationRenderedWitness ==
    /\ SavedLast
    /\ \E k \in UserKeys :
          /\ Len(journal[k]) = 1
          /\ journal[k][1].ok
          /\ resetAt[k] = 1
          /\ \E i \in 1..Len(files[Path].body) : files[Path].body[i].id = k
          /\ BlockLines(files[Path], k) = <<>>

(***************************************************************************)
(* C4 as stated.  The table of contents and the section blocks of every    *)
(* written document list the sections in the order in which their keys     *)
(* were first created (sections holds them in that order).                 *)
(***************************************************************************)
SectionsListedInCreationOrder ==
    \A p \in DOMAIN files :
        /\ \A i, j \in 1..Len(files[p].body) :
              i < j => PosOf(sections, files[p].body[i].id)
                         < PosOf(sections, files[p].body[j].id)
        /\ \A i \in 1..Len(files[p].toc) :
              files[p].toc[i].href = "#" \o files[p].body[i].id

(***************************************************************************)
(* C5.  A call of errorException or debugException creates the EXCEPTIONS  *)
(* section only when it does not exist.  When it exists the call keeps its *)
(* start and its entries; a call that returns normally has appended        *)
(* exactly one entry of its type and closed the section, with elapsed the  *)
(* time of the call minus the start of the section.                        *)
(***************************************************************************)
ExceptionsSectionReused ==
    [][(IsCall /\ lastCall'.op \in ExceptionOps) =>
        /\ HasKey(sections', EXCEPTIONS)
        /\ HasKey(sections, EXCEPTIONS) =>
              /\ Get(sections', EXCEPTIONS).start = Get(sections, EXCEPTIONS).start
              /\ Len(Get(sections', EXCEPTIONS).logs) >= Len(Get(sections, EXCEPTIONS).logs)
              /\ SubSeq(Get(sections', EXCEPTIONS).logs, 1,
                        Len(Get(sections, EXCEPTIONS).logs))
                   = Get(sections, EXCEPTIONS).logs
              /\ (lastCall'.result = "none" =>
                     Len(Get(sections', EXCEPTIONS).logs)
                       = Len(Get(sections, EXCEPTIONS).logs) + 1)
        /\ ~HasKey(sections, EXCEPTIONS) =>
              /\ Get(sections', EXCEPTIONS).start = now
              /\ (lastCall'.result = "none" => Len(Get(sections', EXCEPTIONS).logs) = 1)
        /\ lastCall'.result = "none" =>
              /\ Get(sections', EXCEPTIONS).logs[Len(Get(sections', EXCEPTIONS).logs)].type
                   = TypeOf(lastCall'.op)
              /\ Get(sections', EXCEPTIONS).end = now
              /\ Get(sections', EXCEPTIONS).elapsed
                   = <<now - Get(sections', EXCEPTIONS).start>>]_vars

\* A second exception call, later than the first, has returned normally.
ExceptionsSectionReusedWitness ==
    /\ lastCall.op = "debugException"
    /\ lastCall.result = "none"
    /\ Len(Get(sections, EXCEPTIONS).logs) = 2
    /\ Get(sections, EXCEPTIONS).logs[1].type = ERROR
    /\ Get(sections, EXCEPTIONS).elapsed # <<0>>


(***************************************************************************)
(* C6.  Every save of one Logger targets the same file path, whatever      *)
(* happens between the saves and however much time passes: title, logsPath *)
(* and start never change, and every path written to is the path derived   *)
(* from them.                                                              *)
(***************************************************************************)
EverySaveTargetsOnePath ==
    [][/\ title' = title
       /\ logsPath' = logsPath
       /\ start' = start
       /\ targets' \subseteq {Path}
       /\ DOMAIN files' \subseteq {Path}]_vars

\* Two calls have saved, the last one at a later time than the construction.
EverySaveTargetsOnePathWitness ==
    /\ ncalls >= 2
    /\ SavedLast
    /\ faults = 0
    /\ now # start
    /\ end = now
    /\ targets = {Path}
    /\ files[Path].finished # files[Path].started

\* The path with every field of the stamp on two digits.
SpecifiedStamp(t) ==
    NumToStr(getFullYear(t)) \o ZeroPadded(getMonth(t) + 1) \o ZeroPadded(getDate(t))
      \o "_" \o ZeroPadded(getHours(t)) \o ZeroPadded(getMinutes(t))
      \o ZeroPadded(getSeconds(t))

SpecifiedPath(ttl, base, t) ==
    base \o "/" \o NumToStr(getFullYear(t)) \o "/" \o ZeroPadded(getMonth(t) + 1)
      \o "/" \o ZeroPadded(getDate(t)) \o "/" \o ttl \o "_" \o SpecifiedStamp(t)
      \o ".html"

SameSecond(t, u) == t \div MsPerSecond = u \div MsPerSecond

(***************************************************************************)
(* C7 as stated.  The save path is                                         *)
(* logsPath/YYYY/MM/DD/<title>_<YYYYMMDD_HHmmss>.html with 4-digit year    *)
(* and 2-digit month, day, hour, minute and second of start, and Loggers   *)
(* with the same title and logsPath whose starts differ in the date, hour, *)
(* minute or second have different paths.                                  *)
(***************************************************************************)
SavePathIsPaddedAndUnique ==
    targets # {} =>
        /\ targets = {SpecifiedPath(title, logsPath, start)}
        /\ \A t \in Dates :
              ~SameSecond(t, start) => FullFilePath(title, logsPath, t) \notin targets

\* The call op(key) creates the section k.
Creates(op, key, k) ==
    \/ op = "createSection" /\ key = k
    \/ op \in ExceptionOps /\ k = EXCEPTIONS /\ ~HasKey(sections, EXCEPTIONS)

(***************************************************************************)
(* C8.  closeSection on an existing section sets its end to the current    *)
(* time and its elapsed to end minus start in milliseconds, which is >= 0, *)
(* and leaves its start alone; start is the time of the most recent        *)
(* createSection of the key, since createSection sets it to the current    *)
(* time and no other call changes it.                                      *)
(***************************************************************************)
ElapsedIsEndMinusStart ==
    [][IsCall =>
        /\ (lastCall'.op = "closeSection" /\ HasKey(sections, lastCall'.key)) =>
              /\ Get(sections', lastCall'.key).end = now
              /\ Get(sections', lastCall'.key).elapsed
                   = <<now - Get(sections, lastCall'.key).start>>
              /\ Get(sections', lastCall'.key).elapsed[1] >= 0
        /\ \A k \in AllKeys :
              /\ Creates(lastCall'.op, lastCall'.key, k) =>
                    Get(sections', k).start = now
              /\ (HasKey(sections, k) /\ ~Creates(lastCall'.op, lastCall'.key, k)) =>
                    /\ HasKey(sections', k)
                    /\ Get(sections', k).start = Get(sections, k).start]_vars

\* A section was closed some time after it was created.
ElapsedIsEndMinusStartWitness ==
    /\ lastCall.op = "closeSection"
    /\ lastCall.result = "none"
    /\ Get(sections, lastCall.key).end = now
    /\ Get(sections, lastCall.key).start < now
    /\ Get(sections, lastCall.key).elapsed
         = <<now - Get(sections, lastCall.key).start>>

\* The failed calls and the successful writes among the file-system calls cs.
Failed(cs) == {i \in 1..Len(cs) : ~cs[i].ok}
Written(cs) == {i \in 1..Len(cs) : cs[i].fn = "writeFileSync" /\ cs[i].ok}

(***************************************************************************)
(* C9.  A failing directory creation or file write reaches the caller of   *)
(* the public method: the method ends with that error, the failing call is *)
(* the last file-system call it makes (no retry, nothing after it), and a  *)
(* method ends with an I/O error only if a call failed.  An exception call *)
(* whose first save fails does not go on: when that save is the one of the *)
(* creation of the section, no entry is appended and the section is not    *)
(* closed; when the section existed, it is not closed.                     *)
(***************************************************************************)
StorageFailureReachesCaller ==
    [][IsCall =>
        /\ Failed(calls') # {} => lastCall'.result = "IOError"
        /\ lastCall'.result = "IOError" => Failed(calls') = {Len(calls')}
        /\ faults' = faults + Cardinality(Failed(calls'))
        /\ (/\ lastCall'.op \in ExceptionOps
            /\ lastCall'.result = "IOError"
            /\ Written(calls') = {}) =>
              IF HasKey(sections, EXCEPTIONS)
              THEN /\ Get(sections', EXCEPTIONS).end = Get(sections, EXCEPTIONS).end
                   /\ Get(sections', EXCEPTIONS).elapsed
                        = Get(sections, EXCEPTIONS).elapsed
              ELSE /\ Get(sections', EXCEPTIONS).logs = <<>>
                   /\ Get(sections', EXCEPTIONS).elapsed = <<>>
                   /\ journal' = journal]_vars

\* errorException has failed in the save of the creation of the section.
StorageFailureReachesCallerWitness ==
    /\ lastCall.op = "errorException"
    /\ lastCall.result = "IOError"
    /\ Written(calls) = {}
    /\ Failed(calls) = {Len(calls)}
    /\ HasKey(sections, EXCEPTIONS)
    /\ Get(sections, EXCEPTIONS).logs = <<>>
    /\ Get(sections, EXCEPTIONS).elapsed = <<>>

\* The change op(key) makes to the section of key.
ChangeOf(op, key) ==
    IF op = "createSection"
    THEN \E name \in SectionNames :
            Get(sections', key) = NewSection(name, key, now, now)
    ELSE IF op = "closeSection"
    THEN Get(sections', key) =
            [Get(sections, key) EXCEPT
                !.end = now,
                !.elapsed = <<now - Get(sections, key).start>>]
    ELSE \E value \in Values :
            Get(sections', key) =
               [Get(sections, key) EXCEPT
                   !.logs = Append(@, [type |-> TypeOf(op), value |-> value,
                                       dateTime |-> dateToString(now, TplDateTime)])]

TocOf(list) == [i \in 1..Len(list) |-> RenderTocItem(list[i])]
BodyOf(list) == [i \in 1..Len(list) |-> RenderSection(list[i])]

(***************************************************************************)
(* C10.  When the save of createSection, closeSection, info, error or      *)
(* debug fails, the change the call made in memory stays (the new or reset *)
(* section, the end and elapsed, the appended entry, Logger.end) and the   *)
(* file keeps its content; every later save that succeeds writes the       *)
(* rendering of the memory, the change included.                           *)
(***************************************************************************)
FailedSaveKeepsChange ==
    [][IsCall =>
        /\ (/\ lastCall'.op \in {"createSection", "closeSection"} \cup PushOps
            /\ lastCall'.result = "IOError") =>
              /\ files' = files
              /\ end' = now
              /\ HasKey(sections', lastCall'.key)
              /\ ChangeOf(lastCall'.op, lastCall'.key)
        /\ (lastCall'.result = "none" /\ faults > 0) =>
              /\ Path \in DOMAIN files'
              /\ files'[Path].toc = TocOf(ForIn(sections'))
              /\ files'[Path].body = BodyOf(ForIn(sections'))
              /\ files'[Path].finished = dateToString(end', TplDateTime)]_vars

\* The save of an entry failed and a later save succeeded: the document has
\* the entry.
FailedSaveKeepsChangeWitness ==
    /\ lastCall.op = "save"
    /\ lastCall.result = "none"
    /\ faults = 1
    /\ \E k \in UserKeys :
          /\ Len(journal[k]) = 1
          /\ ~journal[k][1].ok
          /\ Path \in DOMAIN files
          /\ BlockLines(files[Path], k) = <<LineOf(journal[k][1].log)>>

=============================================================================
